---- MODULE Spec2Model ----
(***************************************************************************)
(* The dashboard statistics pipeline of backend/app.js: the                *)
(* GET /api/dashboard-stats handler (four Record Store queries behind one  *)
(* try/catch) and the Socket.IO 'requestStats' handler that reaches it     *)
(* through a loopback fetch and emits 'statsUpdate' to the asking socket.  *)
(*                                                                         *)
(* Time is counted in ticks since the epoch, UTC; TicksPerDay ticks make a *)
(* calendar day, and the server's timezone is a whole number of ticks.     *)
(* A Date object is a record [valid, time]; valid = FALSE is Invalid Date. *)
(***************************************************************************)
EXTENDS Integers, Sequences, FiniteSets, TLC

\* ------------------------------------------------------------ bounds
TicksPerDay == 2
MaxElapsed  == 1
MaxSockets  == 2
MaxRequests == 2
MaxRecords  == 3
MaxWrites   == 1

\* ------------------------------------------------------------ values
Undefined == "undefined"

\* The server's offsets from UTC, in ticks (west of, at, east of Greenwich).
TzOffsets == {-1, 0, 1}

\* requestStats payloads: { date: '1970-01-03' } and
\* { recruiterId: 'R1', date: '1970-01-02' }.
Payloads ==
  { [recruiterId |-> Undefined, date |-> "1970-01-03"],
    [recruiterId |-> "R1", date |-> "1970-01-02"] }

\* req.query of a browser's request: a parameter left out reads as empty.
RecruiterParams == {"", "R1"}
DateParams      == {"", "not-a-date", "1970-01-02"}

Recruiters == {"R1", "R2"}
Clients    == {"A", "B"}
Statuses   == {"Select", "Reject"}

\* The users collection the $lookup joins against: R2 has no user document.
Users == {"R1"}

InvalidDate == [valid |-> FALSE, time |-> 0]
NoFilter    == [start |-> InvalidDate, end |-> InvalidDate,
                hasCreatedBy |-> FALSE, createdBy |-> ""]
NullFilter  == [null |-> TRUE]
NoRes       == [status |-> 0, body |-> [none |-> TRUE]]
ServerError == [status |-> 500, body |-> [error |-> "Server error"]]

VARIABLES
  tz,          \* the server's timezone offset
  now,         \* the server clock
  records,     \* the candidates collection, a sequence of documents
  writes,      \* write operations done so far
  sockets,     \* the connected sockets (socket ids)
  nextSocket,  \* socket ids are never reused
  reqs,        \* every request of the run: its handler's locals and position
  emitted,     \* statsUpdate events delivered, in order
  errorLog     \* console.error entries

vars == <<tz, now, records, writes, sockets, nextSocket, reqs, emitted, errorLog>>

\* ------------------------------------------------------------ dates
\* Days since the epoch of an ISO-8601 calendar date string.
IsoDay(s) ==
  CASE s = "1970-01-02" -> 1
    [] s = "1970-01-03" -> 2
    [] OTHER -> 0

IsIsoDate(s) == s \in {"1970-01-02", "1970-01-03"}

\* new Date(string): a date-only ISO string is UTC midnight of that day,
\* anything else that does not parse is Invalid Date.
ParseDate(s) ==
  IF IsIsoDate(s) THEN [valid |-> TRUE, time |-> IsoDay(s) * TicksPerDay]
  ELSE InvalidDate

\* const start = date ? new Date(date) : new Date();
NewStartDate(date, clock) ==
  IF date # "" THEN ParseDate(date) ELSE [valid |-> TRUE, time |-> clock]

\* Date.prototype.setHours(0, 0, 0, 0): midnight of the date's LOCAL day.
SetHoursStart(d, offset) ==
  IF ~d.valid THEN InvalidDate
  ELSE [valid |-> TRUE,
        time  |-> ((d.time + offset) \div TicksPerDay) * TicksPerDay - offset]

\* Date.prototype.setHours(23, 59, 59, 999): last instant of the local day.
SetHoursEnd(d, offset) ==
  IF ~d.valid THEN InvalidDate
  ELSE [valid |-> TRUE,
        time  |-> ((d.time + offset) \div TicksPerDay) * TicksPerDay
                    + (TicksPerDay - 1) - offset]

\* Lines 168-175: the Mongo filter the handler builds from req.query.
BuildFilter(query, clock, offset) ==
  LET start == SetHoursStart(NewStartDate(query.date, clock), offset)
      end   == SetHoursEnd(start, offset)
  IN [start |-> start, end |-> end,
      hasCreatedBy |-> query.recruiterId # "",
      createdBy    |-> query.recruiterId]

\* ------------------------------------------------------------ store
\* A faulty Matches, for contrast: the createdBy condition is left out of the filter.
MatchesAnyRecruiter(rec, filter) ==
  /\ rec.createdAt >= filter.start.time
  /\ rec.createdAt <= filter.end.time

\* { createdAt: { $gte: start, $lte: end }, createdBy? }
Matches(rec, filter) ==
  /\ rec.createdAt >= filter.start.time
  /\ rec.createdAt <= filter.end.time
  /\ (filter.hasCreatedBy => rec.createdBy = filter.createdBy)

\* { ...filter, hrStatus: 'Select' }
MatchesSelected(rec, filter) == Matches(rec, filter) /\ rec.hrStatus = "Select"

RECURSIVE CountFrom(_, _, _, _)
CountFrom(recs, filter, selectedOnly, i) ==
  IF i > Len(recs) THEN 0
  ELSE (IF (IF selectedOnly THEN MatchesSelected(recs[i], filter)
            ELSE Matches(recs[i], filter))
        THEN 1 ELSE 0) + CountFrom(recs, filter, selectedOnly, i + 1)

\* Candidate.countDocuments(filter)
CountDocuments(recs, filter, selectedOnly) == CountFrom(recs, filter, selectedOnly, 1)

\* { $match: filter }, { $group: { _id: '$<key>', calls: { $sum: 1 } } }
GroupBy(recs, filter, key) ==
  LET hit  == {i \in 1..Len(recs) : Matches(recs[i], filter)}
      keys == {recs[i][key] : i \in hit}
  IN {[_id |-> k, calls |-> Cardinality({i \in hit : recs[i][key] = k})] : k \in keys}

\* The orders a cursor may return a set of documents in.
Orders(S) ==
  {s \in [1..Cardinality(S) -> S] : \A i, j \in 1..Cardinality(S) : i # j => s[i] # s[j]}

\* { $lookup: from users by _id }, { $unwind: preserveNullAndEmptyArrays }
Lookup(g) == [_id |-> g._id, calls |-> g.calls, hasRecruiter |-> g._id \in Users]

\* { $sort: { calls: -1 } }
SortedByCalls(s) == \A i \in 1..(Len(s) - 1) : s[i].calls >= s[i + 1].calls

RecruiterCallsResults(recs, filter) ==
  {[i \in 1..Len(s) |-> Lookup(s[i])] : s \in Orders(GroupBy(recs, filter, "createdBy"))}

ClientCallsResults(recs, filter) ==
  {s \in Orders(GroupBy(recs, filter, "client")) : SortedByCalls(s)}

\* ------------------------------------------------------------ requests
\* x || '' of the url template (line 235)
OrEmpty(x) == IF x = Undefined THEN "" ELSE x

\* The query string of the loopback url, as req.query reads it back.
RequestUrl(filters) ==
  [recruiterId |-> OrEmpty(filters.recruiterId), date |-> OrEmpty(filters.date)]

Queries == [recruiterId : RecruiterParams, date : DateParams]

\* A request whose handler has not run yet; sock = 0 is a browser's request.
NewRequest(sock, filters, query) ==
  [sock |-> sock, filters |-> filters, pc |-> "fetch",
   query |-> query, filter |-> NoFilter, at |-> 0,
   totalCalls |-> 0, totalSelected |-> 0,
   recruiterCalls |-> <<>>, clientCalls |-> <<>>,
   res |-> NoRes, dirty |-> FALSE]

\* Entry of the route handler: lines 168-175.
EnterHandler(r, clock, offset) ==
  [r EXCEPT !.pc = "q1", !.at = clock,
            !.filter = BuildFilter(r.query, clock, offset)]

\* Where a request goes once its response is sent: a socket request waits
\* for its fetch to resolve, a browser's request is over.
AfterResponse(r) == IF r.sock = 0 THEN "done" ELSE "responded"

\* res.json({ totalCalls, totalSelected, recruiterCalls, clientCalls })
Success(r) ==
  [status |-> 200,
   body   |-> [totalCalls |-> r.totalCalls, totalSelected |-> r.totalSelected,
               recruiterCalls |-> r.recruiterCalls, clientCalls |-> r.clientCalls]]

\* A faulty QueryFailed, for contrast: the catch answers with the figures computed so far.
QueryFailedPartial(r) == [r EXCEPT !.pc = AfterResponse(r), !.res = Success(r)]

\* catch (err): lines 201-204.
QueryFailed(r) == [r EXCEPT !.pc = AfterResponse(r), !.res = ServerError]

\* A faulty EmitTargets, for contrast: io.emit, a broadcast to every connected socket.
EmitToEveryone(sock) == sockets

\* A faulty EmitTargets, for contrast: the packet is written whatever the connection's state.
EmitToClosedToo(sock) == {sock}

\* socket.emit('statsUpdate', data): to this socket alone, and nothing is
\* written once its connection is closed.
EmitTargets(sock) == {sock} \cap sockets

\* What the server keeps of a connection's requestStats payloads: nothing;
\* filters is a parameter of the handler and is stored nowhere.
lastFilter(sock) == NullFilter

Computing(r) == r.pc \in {"q1", "q2", "q3", "q4"}

SocketRequests == {i \in 1..Len(reqs) : reqs[i].sock # 0}
PullRequests   == {i \in 1..Len(reqs) : reqs[i].sock = 0}

\* ------------------------------------------------------------ actions
Fixture ==
  << [createdAt |-> TicksPerDay, createdBy |-> "R1", client |-> "A",
      hrStatus |-> "Select"],
     [createdAt |-> TicksPerDay + 1, createdBy |-> "R1", client |-> "A",
      hrStatus |-> "Reject"],
     [createdAt |-> TicksPerDay + 1, createdBy |-> "R2", client |-> "B",
      hrStatus |-> "Select"] >>

InitServer ==
  /\ now = TicksPerDay
  /\ writes = 0
  /\ sockets = {}
  /\ nextSocket = 1
  /\ reqs = <<>>
  /\ emitted = <<>>
  /\ errorLog = {}

\* The server clock advances.
Tick ==
  /\ now < TicksPerDay + MaxElapsed
  /\ now' = now + 1
  /\ UNCHANGED <<tz, records, writes, sockets, nextSocket, reqs, emitted, errorLog>>

\* io.on('connection'): a new socket, with an id of its own.
Connect ==
  /\ nextSocket <= MaxSockets
  /\ sockets' = sockets \cup {nextSocket}
  /\ nextSocket' = nextSocket + 1
  /\ UNCHANGED <<tz, now, records, writes, reqs, emitted, errorLog>>

\* socket.on('disconnect')
Disconnect(s) ==
  /\ s \in sockets
  /\ sockets' = sockets \ {s}
  /\ UNCHANGED <<tz, now, records, writes, nextSocket, reqs, emitted, errorLog>>

\* socket.on('requestStats'), up to its first await: the fetch is sent.
RequestStats(s, filters) ==
  /\ s \in sockets
  /\ Cardinality(SocketRequests) < MaxRequests
  /\ reqs' = Append(reqs, NewRequest(s, filters, RequestUrl(filters)))
  /\ UNCHANGED <<tz, now, records, writes, sockets, nextSocket, emitted, errorLog>>

\* A browser's GET /api/dashboard-stats reaches the handler.
PullRequest(query) ==
  /\ PullRequests = {}
  /\ reqs' = Append(reqs, EnterHandler(NewRequest(0, query, query), now, tz))
  /\ UNCHANGED <<tz, now, records, writes, sockets, nextSocket, emitted, errorLog>>

\* The loopback request reaches the route handler.
FetchHandled(i) ==
  /\ reqs[i].pc = "fetch"
  /\ reqs' = [reqs EXCEPT ![i] = EnterHandler(reqs[i], now, tz)]
  /\ UNCHANGED <<tz, now, records, writes, sockets, nextSocket, emitted, errorLog>>

\* catch (err) of the socket handler, lines 239-241: console.error, no emit.
SocketCatch(i) ==
  /\ reqs' = [reqs EXCEPT ![i].pc = "done"]
  /\ errorLog' = errorLog \cup {[at |-> "socket", req |-> i]}
  /\ UNCHANGED <<tz, now, records, writes, sockets, nextSocket, emitted>>

\* await fetch(url) rejects: the endpoint cannot be reached.
FetchRejected(i) ==
  /\ reqs[i].pc = "fetch"
  /\ SocketCatch(i)

\* await resApi.json() rejects: what answered the url sent no JSON.
JsonRejected(i) ==
  /\ reqs[i].pc = "fetch"
  /\ SocketCatch(i)

\* One of the handler's four awaits throws: catch (err), console.error and
\* the 500 response; the handler issues no further query.
QueryThrows(i) ==
  /\ Computing(reqs[i])
  /\ reqs' = [reqs EXCEPT ![i] = QueryFailed(reqs[i])]
  /\ errorLog' = errorLog \cup {[at |-> "dashboard-stats", req |-> i]}
  /\ UNCHANGED <<tz, now, records, writes, sockets, nextSocket, emitted>>

\* await Candidate.countDocuments(filter) rejects: an Invalid Date does not
\* cast to the createdAt path, and no query is sent. The same catch answers.
CastThrows(i) ==
  /\ reqs[i].pc = "q1"
  /\ ~reqs[i].filter.start.valid
  /\ reqs' = [reqs EXCEPT ![i] = QueryFailed(reqs[i])]
  /\ errorLog' = errorLog \cup {[at |-> "dashboard-stats", req |-> i]}
  /\ UNCHANGED <<tz, now, records, writes, sockets, nextSocket, emitted>>

\* await Candidate.countDocuments(filter)
CountTotal(i) ==
  /\ reqs[i].pc = "q1"
  /\ reqs[i].filter.start.valid
  /\ reqs' = [reqs EXCEPT ![i].pc = "q2",
                 ![i].totalCalls = CountDocuments(records, reqs[i].filter, FALSE)]
  /\ UNCHANGED <<tz, now, records, writes, sockets, nextSocket, emitted, errorLog>>

\* await Candidate.countDocuments({ ...filter, hrStatus: 'Select' })
CountSelected(i) ==
  /\ reqs[i].pc = "q2"
  /\ reqs' = [reqs EXCEPT ![i].pc = "q3",
                 ![i].totalSelected = CountDocuments(records, reqs[i].filter, TRUE)]
  /\ UNCHANGED <<tz, now, records, writes, sockets, nextSocket, emitted, errorLog>>

\* await Candidate.aggregate([$match, $group createdBy, $lookup, $unwind])
AggregateRecruiters(i) ==
  /\ reqs[i].pc = "q3"
  /\ \E s \in RecruiterCallsResults(records, reqs[i].filter) :
       reqs' = [reqs EXCEPT ![i].pc = "q4", ![i].recruiterCalls = s]
  /\ UNCHANGED <<tz, now, records, writes, sockets, nextSocket, emitted, errorLog>>

\* await Candidate.aggregate([$match, $group client, $sort]); res.json(...)
AggregateClients(i) ==
  /\ reqs[i].pc = "q4"
  /\ \E s \in ClientCallsResults(records, reqs[i].filter) :
       LET r == [reqs[i] EXCEPT !.clientCalls = s]
       IN reqs' = [reqs EXCEPT ![i] =
                     [r EXCEPT !.pc = AfterResponse(r), !.res = Success(r)]]
  /\ UNCHANGED <<tz, now, records, writes, sockets, nextSocket, emitted, errorLog>>

\* const data = await resApi.json(); socket.emit('statsUpdate', data);
EmitStats(i) ==
  /\ reqs[i].pc = "responded"
  /\ reqs' = [reqs EXCEPT ![i].pc = "done"]
  /\ emitted' = IF EmitTargets(reqs[i].sock) = {} THEN emitted
                ELSE Append(emitted, [to |-> EmitTargets(reqs[i].sock), req |-> i,
                                      data |-> reqs[i].res.body])
  /\ UNCHANGED <<tz, now, records, writes, sockets, nextSocket, errorLog>>

\* A write marks every request whose handler has started: the record set is
\* no longer the one it was started on.
Touched == [i \in 1..Len(reqs) |->
              IF reqs[i].pc # "fetch" THEN [reqs[i] EXCEPT !.dirty = TRUE]
              ELSE reqs[i]]

\* POST /candidates: a record is created, stamped with the clock.
CreateCandidate(by, client, status) ==
  /\ writes < MaxWrites
  /\ Len(records) < MaxRecords
  /\ records' = Append(records, [createdAt |-> now, createdBy |-> by,
                                 client |-> client, hrStatus |-> status])
  /\ writes' = writes + 1
  /\ reqs' = Touched
  /\ UNCHANGED <<tz, now, sockets, nextSocket, emitted, errorLog>>

\* POST /candidates/:id: a record's hrStatus is changed.
UpdateCandidate(k, status) ==
  /\ writes < MaxWrites
  /\ k \in 1..Len(records)
  /\ records[k].hrStatus # status
  /\ records' = [records EXCEPT ![k].hrStatus = status]
  /\ writes' = writes + 1
  /\ reqs' = Touched
  /\ UNCHANGED <<tz, now, sockets, nextSocket, emitted, errorLog>>

\* POST /candidates/:id/delete
DeleteCandidate(k) ==
  /\ writes < MaxWrites
  /\ k \in 1..Len(records)
  /\ records' = [j \in 1..(Len(records) - 1) |->
                   IF j < k THEN records[j] ELSE records[j + 1]]
  /\ writes' = writes + 1
  /\ reqs' = Touched
  /\ UNCHANGED <<tz, now, sockets, nextSocket, emitted, errorLog>>

\* A query of some handler resolves.
StoreStep ==
  \/ \E i \in 1..Len(reqs) : CountTotal(i)
  \/ \E i \in 1..Len(reqs) : CountSelected(i)
  \/ \E i \in 1..Len(reqs) : AggregateRecruiters(i)
  \/ \E i \in 1..Len(reqs) : AggregateClients(i)

\* The live channel of a server at UTC, over a store that answers every
\* query and that nobody writes to.
Init == InitServer /\ tz = 0 /\ records = Fixture

Next ==
  \/ Connect
  \/ \E s \in 1..MaxSockets : Disconnect(s)
  \/ \E s \in 1..MaxSockets, f \in Payloads : RequestStats(s, f)
  \/ \E i \in 1..Len(reqs) : FetchHandled(i)
  \/ \E i \in 1..Len(reqs) : FetchRejected(i)
  \/ \E i \in 1..Len(reqs) : JsonRejected(i)
  \/ StoreStep
  \/ \E i \in 1..Len(reqs) : EmitStats(i)

Spec == Init /\ [][Next]_vars

\* The query endpoint, followed for one browser's request, in any timezone,
\* while candidates are written and the store may fail any query.
InitStats == InitServer /\ tz \in TzOffsets /\ records \in {<<>>, Fixture}

NextStats ==
  \/ Tick
  \/ \E q \in Queries : PullRequest(q)
  \/ StoreStep
  \/ \E i \in 1..Len(reqs) : QueryThrows(i)
  \/ \E i \in 1..Len(reqs) : CastThrows(i)
  \/ \E by \in Recruiters, c \in Clients, st \in Statuses : CreateCandidate(by, c, st)
  \/ \E k \in 1..MaxRecords, st \in Statuses : UpdateCandidate(k, st)
  \/ \E k \in 1..MaxRecords : DeleteCandidate(k)

SpecStats == InitStats /\ [][NextStats]_vars

\* ------------------------------------------------------------ claims
HandlerEntered(r) == r.pc # "fetch"
Finished(r)       == r.pc = "done"

\* The statsUpdate events emitted for request i.
UpdatesOf(i) == {k \in 1..Len(emitted) : emitted[k].req = i}

IsErrorPayload(data)    == "error" \in DOMAIN data
IsAggregateResult(data) ==
  DOMAIN data = {"totalCalls", "totalSelected", "recruiterCalls", "clientCalls"}

\* The closed interval of the server's local calendar day that holds the
\* local day number d, in UTC ticks.
LocalDayStart(d) == d * TicksPerDay - tz
LocalDayEnd(d)   == d * TicksPerDay - tz + (TicksPerDay - 1)

\* The server's local day number at UTC time t.
LocalDayOf(t) == (t + tz) \div TicksPerDay

\* C1: every requestStats received on a connection that stays connected is
\* answered with a statsUpdate to that connection, an AggregateResult on
\* success and an error payload on any request-level failure (endpoint not
\* reached, response not decoded, store failure); stated of finished requests.
C1_EveryRequestAnswered ==
  \A i \in SocketRequests :
    (Finished(reqs[i]) /\ reqs[i].sock \in sockets) =>
      \E k \in UpdatesOf(i) :
        /\ emitted[k].to = {reqs[i].sock}
        /\ IF reqs[i].res.status = 200
           THEN IsAggregateResult(emitted[k].data)
           ELSE IsErrorPayload(emitted[k].data)

\* C2: a statsUpdate goes only to the connection that sent the requestStats
\* it answers, and carries the response the endpoint gave to the query built
\* from that connection's own payload, whatever the interleaving: an
\* AggregateResult counts the records of that connection's own filter.
C2_OwnResultOnly ==
  \A k \in 1..Len(emitted) :
    LET r == reqs[emitted[k].req]
        own == [recruiterId |-> IF r.filters.recruiterId = Undefined THEN ""
                                ELSE r.filters.recruiterId,
                date |-> IF r.filters.date = Undefined THEN ""
                         ELSE r.filters.date]
        hit == {j \in 1..Len(records) :
                  /\ r.filter.start.valid
                  /\ records[j].createdAt >= r.filter.start.time
                  /\ records[j].createdAt <= r.filter.end.time
                  /\ (own.recruiterId = "" \/ records[j].createdBy = own.recruiterId)}
    IN /\ emitted[k].to = {r.sock}
       /\ r.query = own
       /\ emitted[k].data = r.res.body
       /\ IsAggregateResult(emitted[k].data) \/ IsErrorPayload(emitted[k].data)
       /\ IsAggregateResult(emitted[k].data) =>
            emitted[k].data.totalCalls = Cardinality(hit)

\* Two connections, each holding the answer to its own, different, filter.
C2_Witness ==
  \E k, l \in 1..Len(emitted) :
    /\ emitted[k].to = {1} /\ emitted[l].to = {2}
    /\ reqs[emitted[k].req].filters # reqs[emitted[l].req].filters
    /\ IsAggregateResult(emitted[k].data) /\ IsAggregateResult(emitted[l].data)
    /\ emitted[k].data # emitted[l].data
    /\ sockets = {1, 2}

\* C3: every AggregateResult has totalSelected <= totalCalls, also when
\* records are written while the computation is in progress.
C3_SelectedWithinTotal ==
  \A i \in 1..Len(reqs) :
    reqs[i].res.status = 200 =>
      reqs[i].res.body.totalSelected <= reqs[i].res.body.totalCalls

\* C4: a date string that does not parse is treated as absent: the interval
\* is the server's current calendar day and the request is answered with an
\* AggregateResult, never an error.
C4_MalformedDateIsToday ==
  \A i \in 1..Len(reqs) :
    (HandlerEntered(reqs[i]) /\ reqs[i].query.date # ""
       /\ ~IsIsoDate(reqs[i].query.date)) =>
      /\ reqs[i].filter.start.valid /\ reqs[i].filter.end.valid
      /\ reqs[i].filter.start.time = LocalDayStart(LocalDayOf(reqs[i].at))
      /\ reqs[i].filter.end.time = LocalDayEnd(LocalDayOf(reqs[i].at))
      /\ reqs[i].res # ServerError

\* C5: when the connection is closed by the time a request's response has
\* resolved, the emit delivers to no connection and logs nothing; and a
\* disconnect leaves every request as it is, to run to completion.
C5_DiscardedSilently ==
  [][ /\ \A i \in 1..Len(reqs) :
           (reqs[i].pc = "responded" /\ reqs'[i].pc = "done"
              /\ reqs[i].sock \notin sockets) =>
             (emitted' = emitted /\ errorLog' = errorLog)
      /\ (sockets' # sockets /\ sockets' \subseteq sockets) => reqs' = reqs
    ]_vars

\* A request computed to the end after its connection closed, delivered to
\* nobody and logged nowhere, while another connection is open.
C5_Witness ==
  \E i \in SocketRequests :
    /\ Finished(reqs[i]) /\ reqs[i].res.status = 200
    /\ reqs[i].sock \notin sockets /\ sockets # {}
    /\ UpdatesOf(i) = {}
    /\ \A e \in errorLog : e.req # i

\* C6: the caller gets either all four figures, or, once any of the four
\* queries has thrown, the generic { error: 'Server error' } with status 500
\* and nothing else; the handler issues no query after the one that threw.
C6_AllOrNothing ==
  \A i \in 1..Len(reqs) :
    LET r == reqs[i]
        threw == [at |-> "dashboard-stats", req |-> i] \in errorLog
    IN /\ threw => (r.res = ServerError /\ ~Computing(r))
       /\ (r.res # NoRes /\ ~threw) =>
            /\ r.res.status = 200
            /\ r.res.body = [totalCalls |-> r.totalCalls,
                             totalSelected |-> r.totalSelected,
                             recruiterCalls |-> r.recruiterCalls,
                             clientCalls |-> r.clientCalls]
       /\ r.res \in {NoRes, ServerError} \/ IsAggregateResult(r.res.body)
       /\ Computing(r) => r.res = NoRes

\* A later query threw after the first had counted records: the response is
\* the bare error.
C6_Witness ==
  \E i \in 1..Len(reqs) :
    /\ reqs[i].res = ServerError
    /\ reqs[i].totalCalls > 0
    /\ reqs[i].recruiterCalls # <<>>

C8_IntervalIsLocalDay ==
  \A i \in 1..Len(reqs) :
    LET r == reqs[i]
        d == IF r.query.date = "" THEN LocalDayOf(r.at) ELSE IsoDay(r.query.date)
    IN (HandlerEntered(r) /\ (r.query.date = "" \/ IsIsoDate(r.query.date))) =>
         /\ r.filter.start = [valid |-> TRUE, time |-> LocalDayStart(d)]
         /\ r.filter.end = [valid |-> TRUE, time |-> LocalDayEnd(d)]

\* The payload of the most recent requestStats received on a connection.
LastPayload(s) ==
  LET mine == {i \in SocketRequests : reqs[i].sock = s}
  IN IF mine = {} THEN NullFilter
     ELSE reqs[CHOOSE i \in mine : \A j \in mine : j <= i].filters

\* C9: the registry holds one session per connected connection and none for
\* a closed one, and a session's lastFilter is null until the connection's
\* first requestStats and the latest requestStats payload afterwards.
C9_SessionRegistry ==
  /\ sockets \subseteq 1..(nextSocket - 1)
  /\ \A s \in sockets : lastFilter(s) = LastPayload(s)

\* C10: of the requests in flight on one connection, every one produces a
\* statsUpdate of its own, none is cancelled or superseded by another: a
\* connection has received as many updates as requests of its have finished.
C10_EachInFlightAnswered ==
  \A s \in sockets :
    LET sent == {i \in SocketRequests : reqs[i].sock = s}
        mine == {i \in sent : Finished(reqs[i])}
    IN Cardinality(sent) >= 2 =>
         /\ \A i \in mine : Cardinality(UpdatesOf(i)) = 1
         /\ Cardinality({k \in 1..Len(emitted) : emitted[k].to = {s}})
              = Cardinality(mine)

====
